---- MODULE Spec2Model ----
(***************************************************************************)
(* State-machine model of the Azure Maps optimized-route demo:             *)
(*   App (src/App.tsx), AzureMap (src/unnamed/part_000) and the            *)
(*   RouteMatrix component (src/components/RouteMatrix.tsx).               *)
(*                                                                         *)
(* One step is one React event: a handler run to completion together with  *)
(* the re-render and the effects that re-render triggers.  The only        *)
(* suspension point is the network call of calculateOptimizedRoute; the    *)
(* part of that function after its awaits is a separate step.              *)
(*                                                                         *)
(* A nullable value (T | null) is a sequence of length at most one:        *)
(* <<>> is null, <<v>> is the value v.                                     *)
(*                                                                         *)
(* Modelling notes:                                                        *)
(*  - map.getCamera().center of a ready map is always a position, so the   *)
(*    `if (center)` guards of addOrigin / addWaypoint always pass.         *)
(*  - A polyline is represented by its number of coordinates and an arrow  *)
(*    by the index of its coordinate; headings are not represented.        *)
(*  - The reply of the directions service is an input: its status, and the *)
(*    shape of its body as far as the handler reads it.                    *)
(*  - addLog, resultPath and resultChanged are history variables: no       *)
(*    action reads them.                                                   *)
(***************************************************************************)
EXTENDS Integers, Sequences, FiniteSets, TLC

\* ------------------------------------------------------------------ bounds
MaxWaypoints == 2      \* longest waypoint list explored
MaxInFlight == 2       \* cap on simultaneous fetch calls
MaxPolyline == 170     \* longest single-leg polyline explored for arrow placement
MaxLegs == 3           \* longest leg list explored for leg labelling

\* --------------------------------------------------------------- constants
maxArrows == 25
minStep == 5

\* Camera centres the user can pan to: atlas positions, [lon, lat].
Centers == {<<10, 50>>, <<20, 60>>}

\* Location values { lat, lon } built from a camera centre.
Locations == {[lat |-> c[2], lon |-> c[1]] : c \in Centers}

\* Point counts of a leg's `points` list in the responses explored.
PointCounts == {6}

\* import.meta.env.VITE_AZURE_MAPS_SUBSCRIPTION_KEY: undefined ("") or set.
Keys == {"", "key"}

VehicleTypes == {"car", "truck"}

\* ---------------------------------------------------------------- messages
InvalidStateMsg == "Please add a start point and at least one waypoint"
NoRouteMsg == "No route found. Points may be too far apart or not connected by roads."
RouteFailedMsg == "Route calculation failed"
HttpStatusMsg == "HTTP error! status: 400"
ServiceMsg == "service error.message"
BodyMsg == "service message"
TypeErrorMsg == "TypeError"
SyntaxErrorMsg == "SyntaxError"
FetchFailedMsg == "Failed to fetch"

\* ------------------------------------------------------------------- state
VARIABLES
    subscriptionKey,   \* App: the build-time key ("" when not configured)
    screen,            \* App: what App renders, "config-required" or "app"
    map,               \* App: useState<atlas.Map | null>
    origin,            \* RouteMatrix: useState<Location | null>
    waypoints,         \* RouteMatrix: useState<Location[]>
    result,            \* RouteMatrix: useState<RouteResult | null>
    loading,           \* RouteMatrix: useState(false)
    error,             \* RouteMatrix: useState<string | null>
    showTraffic,       \* RouteMatrix: useState(false)
    vehicleType,       \* RouteMatrix: useState<'car' | 'truck'>
    dataSource,        \* dataSourceRef.current: null or the marker features
    routeDataSource,   \* routeDataSourceRef.current: null or the route features
    inflight,          \* the fetch calls awaiting their response, oldest first
    addLog,            \* history: locations passed to addWaypoint since the last clearAll
    resultPath,        \* history: polyline length of the computation that set `result`
    resultChanged      \* history, per computation in flight: has `result` changed since it started

vars == <<subscriptionKey, screen, map, origin, waypoints, result, loading, error,
          showTraffic, vehicleType, dataSource, routeDataSource, inflight,
          addLog, resultPath, resultChanged>>

appVars == <<subscriptionKey, screen>>
optionVars == <<showTraffic, vehicleType>>

\* ----------------------------------------------------------------- helpers
Max(a, b) == IF a >= b THEN a ELSE b

RECURSIVE SumSeq(_)
SumSeq(s) == IF s = <<>> THEN 0 ELSE Head(s) + SumSeq(Tail(s))

RemoveAt(s, i) == [j \in 1..(Len(s) - 1) |-> IF j < i THEN s[j] ELSE s[j + 1]]

\* The history of the computations in flight after a step that changed `result`
\* (changed = TRUE) or did not.
Touch(hist, changed) == [j \in 1..Len(hist) |-> hist[j] \/ changed]

\* Variant of AppRender: the key check is missing.
AppRenderAlways(key) == "app"

\* --------------------------------------------------------------------- App
\* App(): without a key only the configuration panel is rendered; AzureMap
\* and RouteMatrix are not mounted.
AppRender(key) == IF key = "" THEN "config-required" ELSE "app"

Mounted == screen = "app"

\* Variant of MarkerFeatures: waypoint labels are the 0-based index.
MarkerFeaturesZeroBased(o, wps) ==
    (IF o # <<>>
        THEN <<[type |-> "origin", label |-> "Start",
                position |-> <<o[1].lon, o[1].lat>>]>>
        ELSE <<>>)
    \o [i \in 1..Len(wps) |->
            [type |-> "waypoint", label |-> ToString(i - 1),
             position |-> <<wps[i].lon, wps[i].lat>>]]

\* ------------------------------------------------------- marker projection
\* The body of the [origin, waypoints] effect: the feature list it builds.
\* A Point takes [lon, lat].
MarkerFeatures(o, wps) ==
    (IF o # <<>>
        THEN <<[type |-> "origin", label |-> "Start",
                position |-> <<o[1].lon, o[1].lat>>]>>
        ELSE <<>>)
    \o [i \in 1..Len(wps) |->
            [type |-> "waypoint", label |-> ToString((i - 1) + 1),
             position |-> <<wps[i].lon, wps[i].lat>>]]

\* The effect itself: nothing without a data source, else clear() and add().
MarkerEffect(ds, o, wps) ==
    IF ds = <<>> THEN ds ELSE <<MarkerFeatures(o, wps)>>

\* ------------------------------------------------------------------- Init
Init ==
    /\ subscriptionKey \in Keys
    /\ screen = AppRender(subscriptionKey)
    /\ map = "null"
    /\ origin = <<>>
    /\ waypoints = <<>>
    /\ result = <<>>
    /\ loading = FALSE
    /\ error = <<>>
    /\ showTraffic = FALSE
    /\ vehicleType = "car"
    /\ dataSource = <<>>
    /\ routeDataSource = <<>>
    /\ inflight = <<>>
    /\ addLog = <<>>
    /\ resultPath = <<>>
    /\ resultChanged = <<>>

\* ------------------------------------------------------------ map lifecycle
\* AzureMap 'ready' event -> onMapReady(map) -> setMap; RouteMatrix re-renders
\* and its [map] effect creates both data sources (empty).  The marker effect
\* does not re-run: its dependencies [origin, waypoints] did not change.
MapReady ==
    /\ Mounted
    /\ map = "null"
    /\ map' = "map"
    /\ dataSource' = <<(<<>>)>>
    /\ routeDataSource' = <<(<<>>)>>
    /\ UNCHANGED <<appVars, origin, waypoints, result, loading, error,
                   optionVars, inflight, resultChanged, addLog, resultPath>>

\* ------------------------------------------------------------ user actions
\* "Set Start Point" button: disabled={!map || origin !== null}.
addOrigin ==
    /\ Mounted
    /\ map # "null" /\ origin = <<>>
    /\ \E center \in Centers :
          /\ origin' = <<[lat |-> center[2], lon |-> center[1]]>>
          /\ dataSource' = MarkerEffect(dataSource, origin', waypoints)
    /\ UNCHANGED <<appVars, map, waypoints, result, loading, error, optionVars,
                   routeDataSource, inflight, resultChanged, addLog, resultPath>>

\* Variant of AppendWaypoint: a location already in the list is not added again.
AppendWaypointDedup(wps, loc) ==
    IF \E k \in 1..Len(wps) : wps[k] = loc THEN wps ELSE wps \o <<loc>>

\* The new list addWaypoint passes to setWaypoints.
AppendWaypoint(wps, loc) == wps \o <<loc>>

\* "Add Waypoint" button: disabled={!map}.
addWaypoint ==
    /\ Mounted
    /\ map # "null"
    /\ Len(waypoints) < MaxWaypoints
    /\ \E center \in Centers :
          LET loc == [lat |-> center[2], lon |-> center[1]] IN
          /\ waypoints' = AppendWaypoint(waypoints, loc)
          /\ addLog' = Append(addLog, loc)
          /\ dataSource' = MarkerEffect(dataSource, origin, waypoints')
    /\ UNCHANGED <<appVars, map, origin, result, loading, error, optionVars,
                   routeDataSource, inflight, resultChanged, resultPath>>

\* "Clear" button next to the origin, rendered only while origin is set.
clearOrigin ==
    /\ Mounted
    /\ origin # <<>>
    /\ origin' = <<>>
    /\ dataSource' = MarkerEffect(dataSource, origin', waypoints)
    /\ UNCHANGED <<appVars, map, waypoints, result, loading, error, optionVars,
                   routeDataSource, inflight, resultChanged, addLog, resultPath>>

\* Variant of clearAll: the route source is not cleared.
clearAllKeepsRoute ==
    /\ Mounted
    /\ origin' = <<>>
    /\ waypoints' = <<>>
    /\ result' = <<>>
    /\ error' = <<>>
    /\ dataSource' = MarkerEffect(IF dataSource # <<>> THEN <<(<<>>)>> ELSE dataSource,
                                  origin', waypoints')
    /\ addLog' = <<>>
    /\ resultPath' = <<>>
    /\ resultChanged' = Touch(resultChanged, result # result')
    /\ UNCHANGED <<appVars, map, loading, optionVars, inflight, routeDataSource>>

\* Variant of clearAll: the pending computation is cancelled as well.
clearAllCancels ==
    /\ Mounted
    /\ origin' = <<>>
    /\ waypoints' = <<>>
    /\ result' = <<>>
    /\ error' = <<>>
    /\ dataSource' = MarkerEffect(IF dataSource # <<>> THEN <<(<<>>)>> ELSE dataSource,
                                  origin', waypoints')
    /\ routeDataSource' = IF routeDataSource # <<>> THEN <<(<<>>)>> ELSE routeDataSource
    /\ addLog' = <<>>
    /\ resultPath' = <<>>
    /\ loading' = FALSE
    /\ inflight' = <<>>
    /\ resultChanged' = <<>>
    /\ UNCHANGED <<appVars, map, optionVars>>

\* "Clear All" button (always enabled).  Both sources are cleared by the
\* handler; the marker effect then re-runs because setWaypoints([]) passes a
\* new array.
clearAll ==
    /\ Mounted
    /\ origin' = <<>>
    /\ waypoints' = <<>>
    /\ result' = <<>>
    /\ error' = <<>>
    /\ dataSource' = MarkerEffect(IF dataSource # <<>> THEN <<(<<>>)>> ELSE dataSource,
                                  origin', waypoints')
    /\ routeDataSource' = IF routeDataSource # <<>> THEN <<(<<>>)>> ELSE routeDataSource
    /\ addLog' = <<>>
    /\ resultPath' = <<>>
    /\ resultChanged' = Touch(resultChanged, result # result')
    /\ UNCHANGED <<appVars, map, loading, optionVars, inflight>>

\* Traffic checkbox; the traffic effect only calls map.setTraffic.
setShowTraffic ==
    /\ Mounted
    /\ showTraffic' = ~showTraffic
    /\ UNCHANGED <<appVars, map, origin, waypoints, result, loading, error,
                   vehicleType, dataSource, routeDataSource, inflight, resultChanged, addLog,
                   resultPath>>

\* Vehicle type select.
setVehicleType ==
    /\ Mounted
    /\ \E v \in VehicleTypes \ {vehicleType} : vehicleType' = v
    /\ UNCHANGED <<appVars, map, origin, waypoints, result, loading, error,
                   showTraffic, dataSource, routeDataSource, inflight, resultChanged, addLog,
                   resultPath>>

\* --------------------------------------------------------- request builder
\* The four parameters appended for a truck (vehicleParams).
TruckParams == <<<<"vehicleWidth", "2.5">>, <<"vehicleHeight", "4">>,
                 <<"vehicleLength", "12">>, <<"vehicleWeight", "10000">>>>

\* points.map(loc => `${loc.lat},${loc.lon}`).join(':') : one <<lat, lon>>
\* pair per stop, in the order of `points`.
FormatQuery(points) == [i \in 1..Len(points) |-> <<points[i].lat, points[i].lon>>]

\* Variant of BuildUrl: the vehicle dimensions are appended for every vehicle.
BuildUrlAlwaysDimensions(key, o, wps, traffic, vehicle) ==
    [apiVersion |-> "1.0",
     subscriptionKey |-> key,
     query |-> FormatQuery(o \o wps),
     computeBestOrder |-> "true",
     traffic |-> IF traffic THEN <<"true">> ELSE <<>>,
     travelMode |-> vehicle,
     vehicleParams |-> TruckParams]

\* The url calculateOptimizedRoute builds, as its query parameters.
BuildUrl(key, o, wps, traffic, vehicle) ==
    [apiVersion |-> "1.0",
     subscriptionKey |-> key,
     query |-> FormatQuery(o \o wps),
     computeBestOrder |-> "true",
     traffic |-> IF traffic THEN <<"true">> ELSE <<>>,
     travelMode |-> vehicle,
     vehicleParams |-> IF vehicle = "truck" THEN TruckParams ELSE <<>>]

\* Variant of calculateOptimizedRoute: the local check uses && for ||.
calculateOptimizedRouteLaxCheck ==
    IF origin = <<>> /\ Len(waypoints) = 0
    THEN /\ error' = <<InvalidStateMsg>>
         /\ UNCHANGED <<appVars, map, origin, waypoints, result, loading, optionVars,
                        dataSource, routeDataSource, inflight, resultChanged, addLog,
                        resultPath>>
    ELSE /\ loading' = TRUE
         /\ error' = <<>>
         /\ inflight' = Append(inflight,
                BuildUrl(subscriptionKey, origin, waypoints, showTraffic, vehicleType))
         /\ resultChanged' = Append(resultChanged, FALSE)
         /\ UNCHANGED <<appVars, map, origin, waypoints, result, optionVars,
                        dataSource, routeDataSource, addLog, resultPath>>

\* Variant of calculateOptimizedRoute: setError(null) is missing.
calculateOptimizedRouteKeepsError ==
    IF origin = <<>> \/ Len(waypoints) = 0
    THEN /\ error' = <<InvalidStateMsg>>
         /\ UNCHANGED <<appVars, map, origin, waypoints, result, loading, optionVars,
                        dataSource, routeDataSource, inflight, resultChanged, addLog,
                        resultPath>>
    ELSE /\ loading' = TRUE
         /\ inflight' = Append(inflight,
                BuildUrl(subscriptionKey, origin, waypoints, showTraffic, vehicleType))
         /\ resultChanged' = Append(resultChanged, FALSE)
         /\ UNCHANGED <<appVars, map, origin, waypoints, result, error, optionVars,
                        dataSource, routeDataSource, addLog, resultPath>>

\* ------------------------------------------------------ starting a computation
\* calculateOptimizedRoute up to its first await: the local check, then
\* setLoading(true), setError(null) and the fetch call.
calculateOptimizedRoute ==
    IF origin = <<>> \/ Len(waypoints) = 0
    THEN /\ error' = <<InvalidStateMsg>>
         /\ UNCHANGED <<appVars, map, origin, waypoints, result, loading, optionVars,
                        dataSource, routeDataSource, inflight, resultChanged, addLog, resultPath>>
    ELSE /\ loading' = TRUE
         /\ error' = <<>>
         /\ inflight' = Append(inflight,
                BuildUrl(subscriptionKey, origin, waypoints, showTraffic, vehicleType))
         /\ resultChanged' = Append(resultChanged, FALSE)
         /\ UNCHANGED <<appVars, map, origin, waypoints, result, optionVars,
                        dataSource, routeDataSource, addLog, resultPath>>

\* Variant of CalculateDisabled: `loading` is missing from the condition.
CalculateDisabledIgnoresLoading == origin = <<>> \/ Len(waypoints) = 0

\* The Calculate button's disabled attribute.
CalculateDisabled == loading \/ origin = <<>> \/ Len(waypoints) = 0

\* A click on the Calculate button.
ClickCalculate ==
    /\ Mounted
    /\ ~CalculateDisabled
    /\ Len(inflight) < MaxInFlight
    /\ calculateOptimizedRoute

\* The handler invoked while idle without the button's `!origin ||
\* waypoints.length === 0` condition, so that its own check decides.
CallCalculate ==
    /\ Mounted
    /\ ~loading
    /\ calculateOptimizedRoute

\* ------------------------------------------------------------ service replies
RouteSummary == [lengthInMeters |-> 15000, travelTimeInSeconds |-> 1200]
LegSummary == [lengthInMeters |-> 5000, travelTimeInSeconds |-> 600]

\* A leg's points list that is not a list of points (forEach on it throws).
Malformed == -1

\* Legs of a response.  A leg has a summary (or none) and points: none, a
\* list of n points, or something malformed.
GoodLeg(p) == [summary |-> <<LegSummary>>, points |-> p]
MalformedLeg == [summary |-> <<LegSummary>>, points |-> <<Malformed>>]
NoSummaryLeg == [summary |-> <<>>, points |-> <<>>]

\* Leg lists of length len whose legs all have a summary and well-formed
\* points: the first k legs carry n points each and the rest no points.
GoodLegLists(len) ==
    {[i \in 1..len |-> IF i <= k THEN GoodLeg(<<n>>) ELSE GoodLeg(<<>>)] :
        k \in 0..len, n \in PointCounts}

\* Leg lists of length len whose last leg is `bad`.
BadLegLists(len, bad) ==
    IF len = 0 THEN {}
    ELSE {[i \in 1..len |-> IF i < len THEN GoodLeg(<<n>>) ELSE bad] : n \in PointCounts}

LegLists(len) ==
    GoodLegLists(len) \cup BadLegLists(len, MalformedLeg) \cup BadLegLists(len, NoSummaryLeg)

\* routes[0] of the reply to a request with nw waypoints: a summary and legs
\* (none, an empty list, or one leg per consecutive pair of stops), or a
\* route without a summary.
RouteShapes(nw) ==
    {[summary |-> <<RouteSummary>>, legs |-> l] :
        l \in {<<>>} \cup {<<ls>> : ls \in LegLists(0) \cup LegLists(nw)}}
    \cup {[summary |-> <<>>, legs |-> <<>>]}

\* optimizedWaypoints of a reply to a request with n waypoints: absent, or the
\* waypoints in reverse order.
OptimizedChoices(n) ==
    {<<>>, <<[i \in 1..n |-> [providedIndex |-> i - 1, optimizedIndex |-> n - i]]>>}

\* Bodies of a reply with a success status.
OkBodies(req) ==
    {[shape |-> s] : s \in {"unparsable", "errorWithMessage", "errorWithoutMessage",
                             "routesAbsent", "routesEmpty", "firstRouteNull"}}
    \cup {[shape |-> "route", route |-> r, optimizedWaypoints |-> ow] :
             r \in RouteShapes(Len(req.query) - 1),
             ow \in OptimizedChoices(Len(req.query) - 1)}

\* Bodies of a reply with a non-success status.
ErrorBodies == {"unparsable", "null", "empty", "message", "errorMessage"}

\* ------------------------------------------------------ response interpreter
\* errorData.error?.message || errorData.message || `HTTP error! status: ...`
\* with errorData = await response.json().catch(() => ({})).
HttpErrorMessage(body) ==
    CASE body = "errorMessage" -> ServiceMsg
      [] body = "message" -> BodyMsg
      [] body = "null" -> TypeErrorMsg
      [] OTHER -> HttpStatusMsg

\* Variant of ExtractLegs: a later leg's start label is numbered like its end.
ExtractLegsShifted(legs) ==
    IF legs = <<>> THEN <<>>
    ELSE LET ls == legs[1] IN
         [i \in 1..Len(ls) |->
            LET index == i - 1 IN
            [distance |-> ls[i].summary[1].lengthInMeters \div 1000,
             duration |-> ls[i].summary[1].travelTimeInSeconds \div 60,
             startPoint |-> IF index = 0 THEN "Start"
                            ELSE "Waypoint " \o ToString(index + 1),
             endPoint |-> IF index = Len(ls) - 1
                          THEN "Waypoint " \o ToString(Len(ls))
                          ELSE "Waypoint " \o ToString(index + 1)]]

\* route.legs?.map(...) || [] for a leg list (or none) whose legs all have a summary.
ExtractLegs(legs) ==
    IF legs = <<>> THEN <<>>
    ELSE LET ls == legs[1] IN
         [i \in 1..Len(ls) |->
            LET index == i - 1 IN
            [distance |-> ls[i].summary[1].lengthInMeters \div 1000,
             duration |-> ls[i].summary[1].travelTimeInSeconds \div 60,
             startPoint |-> IF index = 0 THEN "Start"
                            ELSE "Waypoint " \o ToString(index),
             endPoint |-> IF index = Len(ls) - 1
                          THEN "Waypoint " \o ToString(Len(ls))
                          ELSE "Waypoint " \o ToString(index + 1)]]

\* The object passed to setResult.
BuildResult(route, ow) ==
    [distance |-> route.summary[1].lengthInMeters \div 1000,
     duration |-> route.summary[1].travelTimeInSeconds \div 60,
     waypointOrder |-> IF ow = <<>> THEN <<>>
                       ELSE <<[i \in 1..Len(ow[1]) |-> ow[1][i].optimizedIndex]>>,
     legs |-> ExtractLegs(route.legs)]

\* Building the result reads leg.summary.lengthInMeters of every leg and
\* summary.lengthInMeters: a missing summary throws before setResult is called.
InterpretationThrows(route) ==
    \/ route.legs # <<>> /\ \E i \in 1..Len(route.legs[1]) : route.legs[1][i].summary = <<>>
    \/ route.summary = <<>>

\* ------------------------------------------------------------ route drawing
\* Does collecting allCoordinates throw?
CollectThrows(legs) ==
    \E i \in 1..Len(legs) : legs[i].points = <<Malformed>>

\* allCoordinates.length for well-formed legs.
PolylineLength(legs) ==
    SumSeq([i \in 1..Len(legs) |->
                IF legs[i].points = <<>> \/ legs[i].points = <<Malformed>>
                THEN 0 ELSE legs[i].points[1]])

\* Length of the polyline a route yields: nothing without legs or when
\* collecting the coordinates throws.
RoutePath(route) ==
    IF route.legs = <<>> \/ CollectThrows(route.legs[1]) THEN 0
    ELSE PolylineLength(route.legs[1])

LineFeature(n) == [geometry |-> "LineString", coords |-> n, isArrow |-> FALSE]
ArrowFeature(i) == [geometry |-> "Point", coords |-> i, isArrow |-> TRUE]

\* const step = Math.max(5, Math.floor(allCoordinates.length / (maxArrows + 1)))
ArrowStep(n) == Max(minStep, n \div (maxArrows + 1))

\* for (let i = step; i < allCoordinates.length - step; i += step) add(arrow at i)
RECURSIVE ArrowLoop(_, _, _, _)
ArrowLoop(i, n, step, acc) ==
    IF i < n - step THEN ArrowLoop(i + step, n, step, Append(acc, ArrowFeature(i)))
    ELSE acc

Arrows(n) == ArrowLoop(ArrowStep(n), n, ArrowStep(n), <<>>)

\* What the route source holds after the drawing block ran to its end.
RouteFeatures(n) == IF n > 0 THEN <<LineFeature(n)>> \o Arrows(n) ELSE <<>>

\* The drawing block: `if (routeDataSourceRef.current && route.legs)`.
DrawRoute(rds, route) ==
    IF rds # <<>> /\ route.legs # <<>>
    THEN IF CollectThrows(route.legs[1])
         THEN <<(<<>>)>>
         ELSE <<RouteFeatures(PolylineLength(route.legs[1]))>>
    ELSE rds

DrawThrows(rds, route) ==
    rds # <<>> /\ route.legs # <<>> /\ CollectThrows(route.legs[1])

\* Variant of FailComputation: the catch block also clears the result.
FailComputationClearsResult(i, msg) ==
    /\ error' = <<msg>>
    /\ result' = <<>>
    /\ loading' = FALSE
    /\ inflight' = RemoveAt(inflight, i)
    /\ resultChanged' = Touch(RemoveAt(resultChanged, i), result # result')
    /\ UNCHANGED <<appVars, map, origin, waypoints, optionVars, dataSource,
                   routeDataSource, addLog, resultPath>>

\* Variant of FailComputation: the finally block is missing.
FailComputationKeepsPending(i, msg) ==
    /\ error' = <<msg>>
    /\ inflight' = RemoveAt(inflight, i)
    /\ resultChanged' = RemoveAt(resultChanged, i)
    /\ UNCHANGED <<appVars, map, origin, waypoints, result, loading, optionVars,
                   dataSource, routeDataSource, addLog, resultPath>>

\* --------------------------------------------------- completing a computation
\* catch (err) { setError(err.message) } finally { setLoading(false) }
FailComputation(i, msg) ==
    /\ error' = <<msg>>
    /\ loading' = FALSE
    /\ inflight' = RemoveAt(inflight, i)
    /\ resultChanged' = RemoveAt(resultChanged, i)
    /\ UNCHANGED <<appVars, map, origin, waypoints, result, optionVars, dataSource,
                   routeDataSource, addLog, resultPath>>

\* fetch rejects (no connectivity).
fetchRejected ==
    \E i \in 1..Len(inflight) : FailComputation(i, FetchFailedMsg)

\* !response.ok
httpErrorResponse ==
    \E i \in 1..Len(inflight) : \E body \in ErrorBodies :
        FailComputation(i, HttpErrorMessage(body))

\* The rest of calculateOptimizedRoute for a reply with a success status.
InterpretResponse(i, data) ==
    CASE data.shape = "unparsable" -> FailComputation(i, SyntaxErrorMsg)
      [] data.shape = "errorWithMessage" -> FailComputation(i, ServiceMsg)
      [] data.shape = "errorWithoutMessage" ->
            FailComputation(i, RouteFailedMsg)
      [] data.shape \in {"routesAbsent", "routesEmpty"} ->
            FailComputation(i, NoRouteMsg)
      [] data.shape = "firstRouteNull" ->
            /\ loading' = FALSE
            /\ inflight' = RemoveAt(inflight, i)
            /\ resultChanged' = RemoveAt(resultChanged, i)
            /\ UNCHANGED <<appVars, map, origin, waypoints, result, error, optionVars,
                           dataSource, routeDataSource, addLog, resultPath>>
      [] data.shape = "route" ->
            IF InterpretationThrows(data.route)
            THEN FailComputation(i, TypeErrorMsg)
            ELSE /\ result' = <<BuildResult(data.route, data.optimizedWaypoints)>>
                 /\ resultPath' = <<RoutePath(data.route)>>
                 /\ routeDataSource' = DrawRoute(routeDataSource, data.route)
                 /\ error' = IF DrawThrows(routeDataSource, data.route)
                             THEN <<TypeErrorMsg>> ELSE error
                 /\ loading' = FALSE
                 /\ inflight' = RemoveAt(inflight, i)
                 /\ resultChanged' = Touch(RemoveAt(resultChanged, i), result # result')
                 /\ UNCHANGED <<appVars, map, origin, waypoints, optionVars,
                                dataSource, addLog>>

okResponse ==
    \E i \in 1..Len(inflight) : \E data \in OkBodies(inflight[i]) :
        InterpretResponse(i, data)

\* ---------------------------------------------------------- specifications
UserAction ==
    \/ addOrigin
    \/ addWaypoint
    \/ clearOrigin
    \/ clearAll
    \/ setShowTraffic
    \/ setVehicleType

Reply ==
    \/ fetchRejected
    \/ httpErrorResponse
    \/ okResponse

\* The application as the user drives it.
Next ==
    \/ MapReady
    \/ UserAction
    \/ ClickCalculate
    \/ Reply

Spec == Init /\ [][Next]_vars

\* The handler reached without the button's disabled attribute, as a caller
\* of calculateOptimizedRoute other than the rendered button would reach it.
NextDirect ==
    \/ MapReady
    \/ addOrigin
    \/ addWaypoint
    \/ clearOrigin
    \/ clearAll
    \/ CallCalculate
    \/ Reply

SpecDirect == Init /\ [][NextDirect]_vars

\* The application with the route options left at their initial values: the
\* options enter the request only, not the handling of its reply.
NextCore ==
    \/ MapReady
    \/ addOrigin
    \/ addWaypoint
    \/ clearOrigin
    \/ clearAll
    \/ ClickCalculate
    \/ Reply

SpecCore == Init /\ [][NextCore]_vars

\* The same, with the network call of every computation eventually resolving
\* or rejecting: a reply step is taken once it stays possible.
SpecLive == SpecCore /\ WF_vars(Reply)

\* A reply to a request with nw waypoints whose first leg carries n points and
\* whose other legs carry none.
LongBody(nw, n) ==
    [shape |-> "route",
     route |-> [summary |-> <<RouteSummary>>,
                legs |-> <<[i \in 1..nw |-> IF i = 1 THEN GoodLeg(<<n>>)
                                            ELSE GoodLeg(<<>>)]>>],
     optimizedWaypoints |-> <<>>]

okResponseLong ==
    \E i \in 1..Len(inflight) : \E n \in 0..MaxPolyline :
        InterpretResponse(i, LongBody(Len(inflight[i].query) - 1, n))

\* Route drawing over long polylines: a computation is set up and answered
\* with a polyline of any length up to MaxPolyline.
NextArrows ==
    \/ MapReady
    \/ addOrigin
    \/ addWaypoint
    \/ ClickCalculate
    \/ okResponseLong

SpecArrows == Init /\ [][NextArrows]_vars

\* A reply whose first route has L legs, leg k with a summary of k km and
\* k minutes and two points.
LegsBody(L) ==
    [shape |-> "route",
     route |-> [summary |-> <<RouteSummary>>,
                legs |-> <<[k \in 1..L |->
                              [summary |-> <<[lengthInMeters |-> 1000 * k,
                                              travelTimeInSeconds |-> 60 * k]>>,
                               points |-> <<2>>]]>>],
     optimizedWaypoints |-> <<>>]

okResponseLegs ==
    \E i \in 1..Len(inflight) : \E L \in 0..MaxLegs :
        InterpretResponse(i, LegsBody(L))

\* Leg extraction: a computation is set up and answered with a route of any
\* number of legs up to MaxLegs, each leg with its own summary.
NextLegs ==
    \/ MapReady
    \/ addOrigin
    \/ addWaypoint
    \/ ClickCalculate
    \/ okResponseLegs

SpecLegs == Init /\ [][NextLegs]_vars

\* ================================================================== claims

\* The local check of calculateOptimizedRoute fails: no origin or no waypoint.
InvalidState == origin = <<>> \/ Len(waypoints) = 0

\* C1: a call of calculateOptimizedRoute ends with the invalid-state message
\* exactly when origin is absent or the waypoint list is empty; such a call
\* issues no fetch and does not set loading, and any other call issues one.
C1_LocalFailure ==
    [][CallCalculate =>
          /\ InvalidState <=> (error' = <<InvalidStateMsg>>)
          /\ InvalidState => inflight' = inflight /\ ~loading'
          /\ ~InvalidState => Len(inflight') = Len(inflight) + 1 /\ loading']_vars

C1_Witness ==
    /\ error = <<InvalidStateMsg>>
    /\ origin = <<>> /\ waypoints # <<>>
    /\ inflight = <<>> /\ ~loading

\* The replies the claim C2 counts as failures: a non-success status, an
\* error payload, no candidate route, or an exception while the call or the
\* construction of the result runs (a route or a leg without its summary).
FailureBodies(req) ==
    {[shape |-> s] : s \in {"unparsable", "errorWithMessage", "errorWithoutMessage",
                             "routesAbsent", "routesEmpty"}}
    \cup {[shape |-> "route", route |-> r, optimizedWaypoints |-> ow] :
             r \in {[summary |-> <<>>, legs |-> <<>>]}
                   \cup {[summary |-> <<RouteSummary>>, legs |-> <<ls>>] :
                            ls \in BadLegLists(Len(req.query) - 1, NoSummaryLeg)},
             ow \in OptimizedChoices(Len(req.query) - 1)}

\* Computation i completes with one of those replies.  (The first two
\* conjuncts follow from the third; they only spare its evaluation.)
FailedReplyOf(i) ==
    /\ Len(inflight') < Len(inflight)
    /\ error' # <<>>
    /\ \/ FailComputation(i, FetchFailedMsg)
       \/ \E body \in ErrorBodies : FailComputation(i, HttpErrorMessage(body))
       \/ \E data \in FailureBodies(inflight[i]) : InterpretResponse(i, data)

\* C2 as stated: after a failed computation lastResult equals lastResult
\* before that computation started (it did not change between the start and
\* the failure, and the failure does not change it).
C2_ResultAsAtStart ==
    [][\A i \in 1..Len(inflight) :
          FailedReplyOf(i) => ~resultChanged[i] /\ result' = result]_vars

\* C2 as amended: handling a failure leaves lastResult as it was just before
\* (neither replaced nor cleared) and sets lastError; lastResult then differs
\* from its value at the start only if it was cleared while the computation
\* was pending, and is absent in that case.
C2_FailureKeepsResult ==
    [][\A i \in 1..Len(inflight) :
          FailedReplyOf(i) =>
              /\ result' = result
              /\ error' # <<>>
              /\ resultChanged[i] => result' = <<>>]_vars

C2_Witness == result # <<>> /\ error = <<NoRouteMsg>> /\ ~loading

\* C3: loading is true exactly when a computation is in flight, and at most
\* one computation is in flight.
C3_PendingIffInFlight ==
    /\ loading <=> Len(inflight) > 0
    /\ Len(inflight) <= 1

C3_Witness ==
    /\ loading /\ Len(inflight) = 1
    /\ origin = <<>> /\ waypoints = <<>>
    /\ vehicleType # inflight[1].travelMode

\* C4: clearAll yields origin absent, waypoints empty, lastResult and
\* lastError absent and both overlay collections empty, and leaves loading
\* as it was.
C4_ClearAllResets ==
    [][clearAll =>
          /\ origin' = <<>> /\ waypoints' = <<>>
          /\ result' = <<>> /\ error' = <<>>
          /\ dataSource' # <<>> => dataSource'[1] = <<>>
          /\ routeDataSource' # <<>> => routeDataSource'[1] = <<>>
          /\ loading' = loading]_vars

C4_Witness ==
    /\ loading /\ inflight # <<>>
    /\ origin = <<>> /\ waypoints = <<>> /\ result = <<>> /\ error = <<>>
    /\ dataSource = <<(<<>>)>> /\ routeDataSource = <<(<<>>)>>
    /\ resultChanged = <<TRUE>>

HasLine(features) == \E k \in 1..Len(features) : ~features[k].isArrow

\* C5: the overlays are a function of the route state: the markers are the
\* projection of (origin, waypoints); the route source holds a line exactly
\* when lastResult is present and was computed with non-empty geometry, and
\* holds nothing when lastResult is absent.
C5_OverlaysFollowState ==
    /\ dataSource # <<>> => dataSource[1] = MarkerFeatures(origin, waypoints)
    /\ routeDataSource # <<>> =>
          /\ HasLine(routeDataSource[1]) <=> (result # <<>> /\ resultPath[1] > 0)
          /\ result = <<>> => routeDataSource[1] = <<>>

\* C6: without a clearAll in between, the waypoint list is the sequence of
\* locations added, in call order, one entry per call.
C6_WaypointsAreCalls == waypoints = addLog

C6_Witness == Len(waypoints) = 2 /\ waypoints[1] = waypoints[2]

TruckParamNames == {"vehicleWidth", "vehicleHeight", "vehicleLength", "vehicleWeight"}

HasParam(req, name, value) ==
    \E k \in 1..Len(req.vehicleParams) : req.vehicleParams[k] = <<name, value>>

\* C7: the request a computation issues lists origin then the waypoints in
\* insertion order, asks for the best order, carries the current vehicle
\* type as travel mode, and has the four fixed dimensions exactly for a truck.
C7_RequestShape ==
    [][Len(inflight') = Len(inflight) + 1 =>
          LET req == inflight'[Len(inflight')] IN
          /\ Len(req.query) = 1 + Len(waypoints)
          /\ req.query[1] = <<origin[1].lat, origin[1].lon>>
          /\ \A k \in 1..Len(waypoints) :
                req.query[k + 1] = <<waypoints[k].lat, waypoints[k].lon>>
          /\ req.computeBestOrder = "true"
          /\ req.travelMode = vehicleType
          /\ vehicleType = "truck" =>
                /\ HasParam(req, "vehicleWidth", "2.5")
                /\ HasParam(req, "vehicleHeight", "4")
                /\ HasParam(req, "vehicleLength", "12")
                /\ HasParam(req, "vehicleWeight", "10000")
          /\ vehicleType = "car" =>
                \A k \in 1..Len(req.vehicleParams) :
                    req.vehicleParams[k][1] \notin TruckParamNames]_vars

C7_Witness ==
    /\ Len(inflight) = 1
    /\ inflight[1].travelMode = "truck"
    /\ Len(inflight[1].query) = 3
    /\ inflight[1].query[2] # inflight[1].query[3]

C9_MarkerLabels ==
    dataSource # <<>> =>
        LET fs == dataSource[1]
            off == IF origin # <<>> THEN 1 ELSE 0
        IN /\ Len(fs) = off + Len(waypoints)
           /\ \A k \in 1..Len(waypoints) :
                 /\ fs[off + k].type = "waypoint"
                 /\ fs[off + k].label = ToString(k)
                 /\ fs[off + k].position = <<waypoints[k].lon, waypoints[k].lat>>
           /\ origin # <<>> => fs[1].type = "origin"
           /\ Cardinality({k \in 1..Len(fs) : fs[k].label = "Start"}) = off

C9_Witness ==
    /\ dataSource # <<>> /\ origin # <<>>
    /\ Len(waypoints) = 2 /\ waypoints[1] # waypoints[2]
    /\ result # <<>> /\ result[1].waypointOrder = <<(<<1, 0>>)>>

ArrowCount(features) == Cardinality({k \in 1..Len(features) : features[k].isArrow})

\* C10: the number of arrow features of a drawn route is at most maxArrows.
C10_ArrowsBounded ==
    routeDataSource # <<>> => ArrowCount(routeDataSource[1]) <= maxArrows

\* The replies that carry a route the handler interprets and draws without an
\* exception: a summary, and legs (none, or a list whose legs all have a
\* summary and well-formed points).
SuccessBodies(req) ==
    {[shape |-> "route", route |-> [summary |-> <<RouteSummary>>, legs |-> l],
      optimizedWaypoints |-> ow] :
         l \in {<<>>} \cup {<<ls>> : ls \in GoodLegLists(0)
                                           \cup GoodLegLists(Len(req.query) - 1)},
         ow \in OptimizedChoices(Len(req.query) - 1)}

\* A step in which a computation completes.
Completes == Len(inflight') < Len(inflight)

\* Computation i completes with the reply `data`.
RepliedWith(i, data) == Completes /\ InterpretResponse(i, data)

\* C11: clearAll does not cancel a pending computation (the call stays in
\* flight and loading stays as it was), and a successful reply is applied
\* whatever origin and the waypoint list are when it arrives: lastResult
\* becomes the result built from the reply, and the route source holds the
\* line of the reply's geometry.
C11_ReplyAppliedAfterClear ==
    [][/\ clearAll => inflight' = inflight /\ loading' = loading
       /\ Completes /\ error' = error =>
             \A i \in 1..Len(inflight) : \A data \in SuccessBodies(inflight[i]) :
                 RepliedWith(i, data) =>
                     /\ result' = <<BuildResult(data.route, data.optimizedWaypoints)>>
                     /\ ~loading'
                     /\ RoutePath(data.route) > 0 =>
                            /\ routeDataSource' # <<>>
                            /\ HasLine(routeDataSource'[1])]_vars

C11_Witness ==
    /\ origin = <<>> /\ waypoints = <<>>
    /\ result # <<>> /\ Len(result[1].legs) = 2
    /\ routeDataSource # <<>> /\ HasLine(routeDataSource[1])
    /\ ~loading /\ inflight = <<>>

\* The replies with a route that is interpreted into a result but whose
\* drawing throws: the points of the last leg are malformed.
DrawThrowBodies(req) ==
    {[shape |-> "route", route |-> [summary |-> <<RouteSummary>>, legs |-> <<ls>>],
      optimizedWaypoints |-> ow] :
         ls \in BadLegLists(Len(req.query) - 1, MalformedLeg),
         ow \in OptimizedChoices(Len(req.query) - 1)}

\* Computation i completes through its catch block: a rejected call, a
\* non-success status, an error payload, no candidate route, or an exception
\* thrown while the reply is interpreted or drawn.
CaughtReplyOf(i) ==
    \/ FailedReplyOf(i)
    \/ /\ Completes
       /\ \E data \in DrawThrowBodies(inflight[i]) : InterpretResponse(i, data)

\* C12: a computation goes from idle to pending and back: a click starts it
\* only while idle and sets loading; provided its network call resolves or
\* rejects, loading is eventually false again; every step that completes a
\* computation leaves loading false, and every completion through the catch
\* block stores a message in lastError.
C12_ComputationTerminates ==
    /\ (loading /\ Len(inflight) > 0) ~> (~loading /\ Len(inflight) = 0)
    /\ [][/\ ClickCalculate => ~loading /\ loading'
          /\ Completes =>
                /\ ~loading'
                /\ \A i \in 1..Len(inflight) : CaughtReplyOf(i) => error' # <<>>]_vars

C12_Witness ==
    /\ ~loading /\ inflight = <<>>
    /\ error = <<TypeErrorMsg>>
    /\ origin # <<>> /\ waypoints # <<>>

\* C13: the completion of a computation never both replaces lastResult and
\* sets lastError: a step that completes a computation and changes
\* lastResult leaves lastError absent, and one that sets lastError leaves
\* lastResult as it was.
C13_ExclusiveCompletion ==
    [][Completes =>
          /\ result' # result => error' = <<>>
          /\ error' # <<>> => result' = result]_vars

\* C14: lastError is absent while a computation is pending: the click that
\* starts a computation leaves lastError absent, lastError is absent in every
\* state with loading set, and the step that completes a computation with a
\* successful reply leaves lastError absent.
C14_ErrorAbsentWhilePending ==
    /\ [](loading => error = <<>>)
    /\ [][/\ ClickCalculate => error' = <<>>
          /\ Completes =>
                \A i \in 1..Len(inflight) : \A data \in SuccessBodies(inflight[i]) :
                    RepliedWith(i, data) => error' = <<>>]_vars

C14_Witness ==
    /\ loading /\ Len(inflight) = 1
    /\ error = <<>>
    /\ result # <<>> /\ Len(result[1].legs) = 1
    /\ Len(waypoints) = 2

\* C15: for a successful reply whose first route has L legs, the legs of
\* lastResult are L entries in leg order (entry k carries the figures of
\* leg k); the first starts at "Start", a later entry k (0-based) starts at
\* "Waypoint k", every entry k ends at "Waypoint k+1", so each entry ends
\* where the next starts and the last ends at "Waypoint L".
C15_LegLabels ==
    [][Completes =>
          \A i \in 1..Len(inflight) : \A L \in 0..MaxLegs :
              RepliedWith(i, LegsBody(L)) =>
                  LET legs == result'[1].legs IN
                  /\ Len(legs) = L
                  /\ \A k \in 1..L :
                        /\ legs[k].distance = k /\ legs[k].duration = k
                        /\ legs[k].startPoint =
                              (IF k = 1 THEN "Start" ELSE "Waypoint " \o ToString(k - 1))
                        /\ legs[k].endPoint = "Waypoint " \o ToString(k)
                        /\ k < L => legs[k].endPoint = legs[k + 1].startPoint
                  /\ L > 0 => legs[L].endPoint = "Waypoint " \o ToString(L)]_vars

C15_Witness ==
    /\ result # <<>> /\ ~loading
    /\ Len(result[1].legs) = 3
    /\ result[1].legs[1].startPoint = "Start"
    /\ result[1].legs[2].startPoint = "Waypoint 1"
    /\ result[1].legs[3].endPoint = "Waypoint 3"
    /\ result[1].legs[3].distance = 3

====
